---- MODULE Spec2Model ----
(***************************************************************************)
(* The registry build pipeline (scripts/build-registry.js) and the         *)
(* integrity validator (scripts/validate-registry.js) of rncanopy-registry,*)
(* as a state machine over the registry tree and the input trees.          *)
(***************************************************************************)
EXTENDS Integers, Sequences, FiniteSets, TLC

VARIABLES
    expoUi,         \* EXPO_PATH/components/ui : [exists, files: name -> text]
    expoProviders,  \* EXPO_PATH/providers     : [exists, files: name -> text]
    expoConstants,  \* EXPO_PATH/constants/ui  : [exists, files: name -> text]
    tree,           \* REGISTRY_PATH: path -> node (directory or file)
    pc,             \* position of the running script, "idle" between runs
    components,     \* main's local `components` of the running build
    templates,      \* main's local `templates`
    providers,      \* main's local `providers`
    tokens,         \* main's local `tokens`
    written,        \* the paths written by the current / latest build run
    log,            \* console output of the current / latest run
    outcome,        \* how the latest run ended
    isValid,        \* validate-registry main's accumulator (0 / 1)
    examined,       \* records whose check was started, per document, latest validation
    builds,         \* number of build runs started (the run's lastUpdated stamp)
    edits,          \* number of changes made to the inputs and the tree between runs
    sinceBuild,     \* history: [clean, deleted], what happened since the latest finished build
    previous,       \* history: the tree the running / latest build started on, when that is
                    \* the tree a finished build left and nothing was changed since
    aText,          \* SpecAnalyze: the source text under analysis
    aName,          \* SpecAnalyze: the component name
    aSheet,         \* SpecAnalyze: the fact sheet returned by analyzeComponentFile
    aRecord,        \* SpecAnalyze: the record returned by createComponentMetadata
    aPc             \* SpecAnalyze: position

vars == <<expoUi, expoProviders, expoConstants, tree, pc, components, templates,
          providers, tokens, written, log, outcome, isValid, examined, builds,
          edits, sinceBuild, previous, aText, aName, aSheet, aRecord, aPc>>

mainVars == <<expoUi, expoProviders, expoConstants, tree, pc, components, templates,
              providers, tokens, written, log, outcome, isValid, examined, builds,
              edits, sinceBuild, previous>>

analyzeVars == <<aText, aName, aSheet, aRecord, aPc>>

-----------------------------------------------------------------------------
(* Bounds of the model.                                                    *)

MaxBuilds == 2
MaxEdits == 2
MaxStmts == 3

-----------------------------------------------------------------------------
(* Names.  A file or directory name is its lower-case spelling, whether    *)
(* its first letter is a capital, and the extensions that follow the stem. *)

N(s) == [s |-> s, cap |-> FALSE, ext |-> <<>>]
Cap(s) == [s |-> s, cap |-> TRUE, ext |-> <<>>]
WithExt(n, e) == [n EXCEPT !.ext = @ \o <<e>>]

toLowerCase(n) == [n EXCEPT !.cap = FALSE]
Capitalize(n) == [n EXCEPT !.cap = TRUE]

endsWith(n, e) == Len(n.ext) > 0 /\ n.ext[Len(n.ext)] = e

RECURSIVE DropFirst(_, _)
DropFirst(seq, e) ==
    IF seq = <<>> THEN <<>>
    ELSE IF Head(seq) = e THEN Tail(seq)
    ELSE <<Head(seq)>> \o DropFirst(Tail(seq), e)

\* file.replace('.tsx', ''): the first occurrence is removed
replaceExt(n, e) == [n EXCEPT !.ext = DropFirst(@, e)]

\* file.includes('index'): the match is case-sensitive
includesIndex(n) == n.s = "index" /\ ~n.cap

\* strcmp order of the spellings the model uses (readdir returns sorted names)
SpellRank(s) ==
    CASE s = "card" -> 1
      [] s = "colors" -> 2
      [] s = "dusk" -> 3
      [] s = "index" -> 4
      [] s = "slate" -> 5
      [] s = "tab" -> 6
      [] s = "theme" -> 7
      [] OTHER -> 8

Before(a, b) ==
    \/ a.cap /\ ~b.cap
    \/ a.cap = b.cap /\ SpellRank(a.s) < SpellRank(b.s)

RECURSIVE SortNames(_)
SortNames(S) ==
    IF S = {} THEN <<>>
    ELSE LET m == CHOOSE x \in S : \A y \in S \ {x} : Before(x, y)
         IN <<m>> \o SortNames(S \ {m})

\* fs.readdirSync(dir): the names of a directory, sorted
readdirSync(files) == SortNames(DOMAIN files)

AppendNew(seq, x) == IF \E i \in DOMAIN seq : seq[i] = x THEN seq ELSE Append(seq, x)

RECURSIVE Dedup(_)
Dedup(seq) ==
    IF seq = <<>> THEN <<>>
    ELSE AppendNew(Dedup(SubSeq(seq, 1, Len(seq) - 1)), seq[Len(seq)])

RECURSIVE Flatten(_)
Flatten(seqs) == IF seqs = <<>> THEN <<>> ELSE Head(seqs) \o Flatten(Tail(seqs))

Range(seq) == {seq[i] : i \in DOMAIN seq}

-----------------------------------------------------------------------------
(* Source texts: a text is a sequence of statements, each of one kind      *)
(*   import : import ... from '<path>'     (path: the module path segments)*)
(*            on one line                                                  *)
(*   import-lines : import { ... } from '<path>', the names on lines of    *)
(*            their own                                                    *)
(*   import-bare  : import '<path>'                                        *)
(*   use    : an occurrence of an identifier (useTheme, useHaptics, ...)   *)
(*   type   : [export] type <id> = 'a' | 'b'                               *)
(*   export : export const|function|interface <id>                         *)
(*   token  : an accessor <root>.<member>                                  *)

Stmt(k, path, id, lits, exported) ==
    [k |-> k, path |-> path, id |-> id, lits |-> lits, exported |-> exported]

Import(path) == Stmt("import", path, "", <<>>, FALSE)
ImportLines(path) == Stmt("import-lines", path, "", <<>>, FALSE)
ImportBare(path) == Stmt("import-bare", path, "", <<>>, FALSE)
ImportKinds == {"import", "import-lines", "import-bare"}
Use(id) == Stmt("use", <<>>, id, <<>>, FALSE)
TypeAlias(id, lits, exported) == Stmt("type", <<>>, id, lits, exported)
Export(id) == Stmt("export", <<>>, id, <<>>, TRUE)
Token(root, member) == Stmt("token", <<root, member>>, "", <<>>, FALSE)

\* crypto.createHash('md5').update(content).digest('hex'): the digest of a
\* text, taken as collision-free
md5(content) == <<"md5", content>>

\* pkg.startsWith('.')
startsWithDot(pkg) == Len(pkg) > 0 /\ pkg[1] \in {".", ".."}
\* pkg.startsWith('react-native/')
startsWithReactNativeSlash(pkg) == Len(pkg) > 1 /\ pkg[1] = "react-native"

KeepsDependency(pkg) ==
    /\ ~startsWithDot(pkg) /\ ~startsWithReactNativeSlash(pkg)
    /\ pkg # <<"react">> /\ pkg # <<"react-native">>

EndsIn(id, suffix) ==
    \/ suffix = "Variant" /\ id \in {"ButtonVariant", "Variant"}
    \/ suffix = "Size" /\ id \in {"ButtonSize", "Size"}

\* which statements each pass of the analyzer matches; /import.*from\s+['"]...['"]/
\* needs import and from on one line, the dot matching no line end
Keeps(st, what) ==
    CASE what = "dependencies" -> st.k = "import" /\ KeepsDependency(st.path)
      [] what = "exports" -> st.exported
      [] what = "variants" -> st.k = "type" /\ EndsIn(st.id, "Variant") /\ st.lits # <<>>
      [] what = "sizes" -> st.k = "type" /\ EndsIn(st.id, "Size") /\ st.lits # <<>>
      [] what = "tokenUsage" -> st.k = "token"

\* what each pass takes from a matched statement
Taken(st, what) ==
    CASE what \in {"dependencies", "tokenUsage"} -> st.path
      [] what = "exports" -> st.id
      [] what \in {"variants", "sizes"} -> st.lits

\* Array.from(new Set(...)): first occurrences, in order
Collect(content, what) ==
    LET sel == SelectSeq(content, LAMBDA st : Keeps(st, what))
    IN Dedup([i \in 1..Len(sel) |-> Taken(sel[i], what)])

includes(content, marker) == \E i \in DOMAIN content : content[i].k = "use" /\ content[i].id = marker

HasHaptics(content) == includes(content, "useHaptics") \/ includes(content, "triggerHaptic")

HasProvider(content) == includes(content, "useTheme") \/ includes(content, "useHaptics")

analyzeComponentFile(content) ==
    [ dependencies |-> Collect(content, "dependencies"),
      exports |-> Collect(content, "exports"),
      variants |-> Dedup(Flatten(Collect(content, "variants"))),
      sizes |-> Dedup(Flatten(Collect(content, "sizes"))),
      hasHaptics |-> HasHaptics(content),
      hasProvider |-> HasProvider(content),
      tokenUsage |-> Collect(content, "tokenUsage"),
      checksum |-> md5(content) ]

-----------------------------------------------------------------------------
(* Metadata Synthesizer.                                                   *)

BaseUrl == N("https://raw.githubusercontent.com/rncanopy/rncanopy-registry/main")
Version == "1.0.0"

baseCategories(name) ==
    CASE name.s \in {"button", "gradientbutton", "input", "switch", "slider", "toggle"} -> "forms"
      [] name.s \in {"alert", "toast", "badge"} -> "feedback"
      [] name.s = "card" -> "layout"
      [] name.s = "spinner" -> "loading"
      [] OTHER -> "forms"

\* the names baseDescriptions has an entry for
baseDescriptions ==
    {"button", "gradientbutton", "input", "switch", "slider", "toggle", "alert",
     "toast", "badge", "card", "spinner"}

RequiredProviders(analysis) ==
    (IF analysis.hasHaptics THEN <<"HapticsProvider">> ELSE <<>>)
    \o (IF analysis.hasProvider THEN <<"ThemeProvider">> ELSE <<>>)

File(s, e) == WithExt(N(s), e)
ComponentTemplateFile == [s |-> "component", cap |-> FALSE, ext |-> <<".tsx", ".template">>]
ComponentJsonFile == File("component", ".json")

createComponentMetadata(componentName, analysis) ==
    LET normalizedName == toLowerCase(componentName)
        displayName == Capitalize(componentName)
    IN [ name |-> normalizedName,
         displayName |-> IF normalizedName.s = "gradientbutton"
                         THEN Cap("gradient button") ELSE displayName,
         description |-> IF normalizedName.s \in baseDescriptions
                         THEN normalizedName ELSE displayName,
         category |-> baseCategories(normalizedName),
         dependencies |-> analysis.dependencies,
         requiredProviders |-> RequiredProviders(analysis),
         files |-> <<ComponentTemplateFile>>,
         exports |-> analysis.exports,
         variants |-> analysis.variants,
         sizes |-> analysis.sizes,
         tokenUsage |-> analysis.tokenUsage,
         hasHaptics |-> analysis.hasHaptics,
         version |-> Version,
         checksum |-> analysis.checksum,
         downloadUrl |-> <<BaseUrl, N("components"), normalizedName, ComponentTemplateFile>>,
         metadataUrl |-> <<BaseUrl, N("components"), normalizedName, ComponentJsonFile>> ]

-----------------------------------------------------------------------------
(* The file system: a tree maps a path (a sequence of names) to a node.    *)

Dir == [kind |-> "dir"]
\* a file written from text, or by JSON.stringify(data, null, indent)
TextFile(content) == [kind |-> "file", fmt |-> "text", indent |-> 0, data |-> [text |-> content]]
JsonFile(data) == [kind |-> "file", fmt |-> "json", indent |-> 2, data |-> data]
\* a file whose text JSON.parse rejects
BadFile == [kind |-> "file", fmt |-> "bad", indent |-> 0, data |-> [bad |-> TRUE]]

existsSync(t, p) == p \in DOMAIN t
isDirectory(t, p) == p \in DOMAIN t /\ t[p].kind = "dir"

\* fs.mkdirSync(p, {recursive: true})
mkdirSync(t, p) ==
    LET new == {SubSeq(p, 1, i) : i \in 1..Len(p)} \ DOMAIN t
    IN [q \in DOMAIN t \cup new |-> IF q \in new THEN Dir ELSE t[q]]

ensureDir(t, p) == IF existsSync(t, p) THEN t ELSE mkdirSync(t, p)

\* fs.writeFileSync(p, node)
writeFileSync(t, p, node) == [q \in DOMAIN t \cup {p} |-> IF q = p THEN node ELSE t[q]]

\* the entries of directory p
Entries(t, p) == {q[Len(q)] : q \in {r \in DOMAIN t : Len(r) = Len(p) + 1 /\ SubSeq(r, 1, Len(p)) = p}}

ApiDir == <<N("api")>>
ApiFile(kind) == <<N("api"), File(kind, ".json")>>
ComponentsDir == <<N("components")>>
TemplatesDir == <<N("templates")>>
ProvidersDir == <<N("providers")>>
TokensDir == <<N("tokens")>>
TemplateJson == File("template", ".json")
MetadataJson == File("metadata", ".json")

Entry(lvl, msg, who) == [lvl |-> lvl, msg |-> msg, who |-> who]

\* the console lines of one function, marked with the function that printed them
Printed(by, lines) ==
    [i \in DOMAIN lines |-> [lvl |-> lines[i].lvl, msg |-> lines[i].msg, who |-> lines[i].who, by |-> by]]

-----------------------------------------------------------------------------
(* buildComponentRegistry                                                  *)

\* content.replace(/\.\.\/\.\.\/constants\/ui/g, './constants/ui')
\*        .replace(/\.\.\/\.\.\/providers/g, './providers')
\* (the two replacements of "from '../" and "from './'" leave a module path
\* of an import as it is)
ComponentTemplatePath(path) ==
    IF Len(path) >= 4 /\ SubSeq(path, 1, 4) = <<"..", "..", "constants", "ui">>
    THEN <<".", "constants", "ui">> \o SubSeq(path, 5, Len(path))
    ELSE IF Len(path) >= 3 /\ SubSeq(path, 1, 3) = <<"..", "..", "providers">>
    THEN <<".", "providers">> \o SubSeq(path, 4, Len(path))
    ELSE path

ComponentTemplateContent(content) ==
    [i \in DOMAIN content |->
        IF content[i].k \in ImportKinds
        THEN [content[i] EXCEPT !.path = ComponentTemplatePath(@)]
        ELSE content[i]]

\* the names of the source files a sub-build takes from an input directory
SourceNames(dir, ext) ==
    LET all == readdirSync(dir.files)
        kept == SelectSeq(all, LAMBDA f : endsWith(f, ext) /\ ~includesIndex(f))
    IN [i \in DOMAIN kept |-> replaceExt(kept[i], ext)]

ComponentsApi(recs, stamp) ==
    [ version |-> Version,
      lastUpdated |-> stamp,
      baseUrl |-> BaseUrl,
      components |-> recs,
      stats |-> [ totalComponents |-> Len(recs),
                  categories |-> Dedup([i \in DOMAIN recs |-> recs[i].category]),
                  totalDependencies |->
                      Len(Dedup(Flatten([i \in DOMAIN recs |-> recs[i].dependencies]))) ] ]

\* one iteration of componentFiles.forEach
ComponentStep(st, ui, componentName) ==
    LET componentDir == ComponentsDir \o <<componentName>>
        sourceFile == WithExt(componentName, ".tsx")
        targetFile == componentDir \o <<ComponentTemplateFile>>
        t1 == ensureDir(st.tree, componentDir)
    IN IF sourceFile \notin DOMAIN ui.files
       THEN [st EXCEPT !.tree = t1]
       ELSE LET content == ui.files[sourceFile]
                t2 == writeFileSync(t1, targetFile, TextFile(ComponentTemplateContent(content)))
                analysis == analyzeComponentFile(content)
                metadata == createComponentMetadata(componentName, analysis)
                t3 == writeFileSync(t2, componentDir \o <<ComponentJsonFile>>, JsonFile(metadata))
            IN [ tree |-> t3,
                 list |-> Append(st.list, metadata),
                 written |-> st.written \cup {targetFile, componentDir \o <<ComponentJsonFile>>},
                 log |-> Append(st.log, Entry("ok", "component", componentName)) ]

RECURSIVE ComponentLoop(_, _, _)
ComponentLoop(st, ui, names) ==
    IF names = <<>> THEN st
    ELSE ComponentLoop(ComponentStep(st, ui, Head(names)), ui, Tail(names))

\* the whole of buildComponentRegistry: threw is TRUE when readdirSync of the
\* input directory throws, which leaves main before anything else is written
buildComponentRegistry(t, ui, wr, stamp) ==
    LET t0 == ensureDir(t, ComponentsDir)
    IN IF ~ui.exists
       THEN [threw |-> TRUE, tree |-> t0, list |-> <<>>, written |-> wr,
             log |-> <<Entry("error", "ENOENT", N("components/ui"))>>]
       ELSE LET st == ComponentLoop([tree |-> t0, list |-> <<>>, written |-> wr, log |-> <<>>],
                                    ui, SourceNames(ui, ".tsx"))
            IN [ threw |-> FALSE,
                 tree |-> writeFileSync(st.tree, ApiFile("components"),
                                        JsonFile(ComponentsApi(st.list, stamp))),
                 list |-> st.list,
                 written |-> st.written \cup {ApiFile("components")},
                 log |-> st.log ]

-----------------------------------------------------------------------------
(* buildTemplateRegistry                                                   *)

\* template.tokens[group], for a tokens map kept as a sequence of [k, v]
HasGroup(toks, g) == \E i \in DOMAIN toks : toks[i].k = g

\* JSON.stringify(value) and JSON.stringify(value, null, 2): the text of a
\* scalar is the same with and without indentation, that of an object is not
JsonText(v, indent) == [indent |-> IF v.shape = "scalar" THEN 0 ELSE indent, data |-> v]

TokenFile(v) == [kind |-> "file", fmt |-> "json", indent |-> JsonText(v, 2).indent, data |-> v]

Pick(rec, keys) == [k \in DOMAIN rec \cap keys |-> rec[k]]

CopiedFields == {"name", "displayName", "description", "author", "version", "personality", "preview"}

MissingColorsTokensOnly(template) == "tokens" \notin DOMAIN template

\* the guard of line 190: !template.tokens || !template.tokens.colors
MissingColors(template) ==
    \/ "tokens" \notin DOMAIN template
    \/ ~HasGroup(template.tokens, "colors")

TemplateMetadata(templateName, template, stamp) ==
    LET toks == template.tokens
    IN Pick(template, CopiedFields) @@
       [ lastUpdated |-> stamp,
         tokenFiles |-> [i \in DOMAIN toks |->
                           [ type |-> toks[i].k,
                             url |-> <<BaseUrl, N("templates"), templateName, File(toks[i].k, ".json")>>,
                             checksum |-> md5(JsonText(toks[i].v, 0)) ]],
         templateUrl |-> <<BaseUrl, N("templates"), templateName, TemplateJson>>,
         metadataUrl |-> <<BaseUrl, N("templates"), templateName, MetadataJson>>,
         checksum |-> md5(template) ]

RECURSIVE WriteTokenFiles(_, _, _)
\* tokenTypes.forEach: one <group>.json per key of template.tokens
WriteTokenFiles(t, templateDir, toks) ==
    IF toks = <<>> THEN t
    ELSE WriteTokenFiles(writeFileSync(t, templateDir \o <<File(Head(toks).k, ".json")>>,
                                       TokenFile(Head(toks).v)),
                         templateDir, Tail(toks))

\* one iteration of templateDirs.forEach, the try / catch included
TemplateStep(st, templateName, stamp) ==
    LET templateDir == TemplatesDir \o <<templateName>>
        node == st.tree[templateDir \o <<TemplateJson>>]
    IN IF node.fmt # "json"
       THEN \* JSON.parse throws: caught at line 237
            [st EXCEPT !.log = Append(@, Entry("error", "template", templateName))]
       ELSE LET template == node.data
            IN IF MissingColors(template)
               THEN [st EXCEPT !.log = Append(@, Entry("warn", "missing-colors", templateName))]
               ELSE LET toks == template.tokens
                        t1 == WriteTokenFiles(st.tree, templateDir, toks)
                        metadata == TemplateMetadata(templateName, template, stamp)
                        t2 == writeFileSync(t1, templateDir \o <<MetadataJson>>, JsonFile(metadata))
                    IN [ tree |-> t2,
                         list |-> Append(st.list, metadata),
                         written |-> st.written
                                     \cup {templateDir \o <<File(toks[i].k, ".json")>> : i \in DOMAIN toks}
                                     \cup {templateDir \o <<MetadataJson>>},
                         log |-> Append(st.log, Entry("ok", "template", templateName)) ]

RECURSIVE TemplateLoop(_, _, _)
TemplateLoop(st, names, stamp) ==
    IF names = <<>> THEN st
    ELSE TemplateLoop(TemplateStep(st, Head(names), stamp), Tail(names), stamp)

TemplateDirs(t) ==
    LET all == SortNames(Entries(t, TemplatesDir))
        dirs == SelectSeq(all, LAMBDA d : isDirectory(t, TemplatesDir \o <<d>>))
    IN SelectSeq(dirs, LAMBDA d : existsSync(t, TemplatesDir \o <<d, TemplateJson>>))

Personality(t) == <<t.personality.mood, t.personality.spacing, t.personality.roundness>>

TemplatesApi(recs, stamp) ==
    [ version |-> Version,
      lastUpdated |-> stamp,
      baseUrl |-> BaseUrl,
      templates |-> recs,
      stats |-> [ totalTemplates |-> Len(recs),
                  availableThemes |-> [i \in DOMAIN recs |->
                                          IF "name" \in DOMAIN recs[i] THEN <<recs[i].name>> ELSE <<>>],
                  tokenTypes |-> IF Len(recs) > 0
                                 THEN [i \in DOMAIN recs[1].tokenFiles |-> recs[1].tokenFiles[i].type]
                                 ELSE <<>>,
                  personalities |-> Dedup([i \in DOMAIN recs |-> Personality(recs[i])]) ] ]

\* the whole of buildTemplateRegistry.  early: the return of line 171, before
\* any document is written.  threw: t.personality.mood of line 252 on a record
\* without personality is a TypeError outside the try of the loop
buildTemplateRegistry(t, wr, stamp) ==
    IF ~existsSync(t, TemplatesDir)
    THEN [threw |-> FALSE, tree |-> mkdirSync(t, TemplatesDir), list |-> <<>>, written |-> wr,
          log |-> <<Entry("ok", "created", N("templates"))>>]
    ELSE LET st == TemplateLoop([tree |-> t, list |-> <<>>, written |-> wr, log |-> <<>>],
                                TemplateDirs(t), stamp)
         IN IF \E i \in DOMAIN st.list : "personality" \notin DOMAIN st.list[i]
            THEN [threw |-> TRUE, tree |-> st.tree, list |-> st.list, written |-> st.written,
                  log |-> Append(st.log, Entry("error", "TypeError", N("personality")))]
            ELSE [threw |-> FALSE,
                  tree |-> writeFileSync(st.tree, ApiFile("templates"),
                                         JsonFile(TemplatesApi(st.list, stamp))),
                  list |-> st.list,
                  written |-> st.written \cup {ApiFile("templates")},
                  log |-> st.log]

-----------------------------------------------------------------------------
(* buildProviderRegistry, buildTokenRegistry, buildRegistryIndex           *)

\* content.replace(/\.\.\/constants\/ui/g, './constants/ui')
ProviderTemplatePath(path) ==
    IF \E i \in 1..(Len(path) - 2) : SubSeq(path, i, i + 2) = <<"..", "constants", "ui">>
    THEN LET i == CHOOSE j \in 1..(Len(path) - 2) :
                      /\ SubSeq(path, j, j + 2) = <<"..", "constants", "ui">>
                      /\ \A h \in 1..(j - 1) : SubSeq(path, h, h + 2) # <<"..", "constants", "ui">>
         IN [path EXCEPT ![i] = "."]
    ELSE path

ProviderTemplateContent(content) ==
    [i \in DOMAIN content |->
        IF content[i].k \in ImportKinds
        THEN [content[i] EXCEPT !.path = ProviderTemplatePath(@)]
        ELSE content[i]]

ProviderMetadata(providerName, analysis) ==
    [ name |-> toLowerCase(providerName),
      displayName |-> providerName,
      description |-> providerName,
      dependencies |-> analysis.dependencies,
      exports |-> analysis.exports,
      version |-> Version,
      checksum |-> analysis.checksum,
      downloadUrl |-> <<BaseUrl, N("providers"), WithExt(WithExt(providerName, ".tsx"), ".template")>> ]

\* one iteration of providerFiles.forEach
ProviderStep(st, dir, file) ==
    LET providerName == replaceExt(file, ".tsx")
        targetPath == ProvidersDir \o <<WithExt(WithExt(providerName, ".tsx"), ".template")>>
        jsonPath == ProvidersDir \o <<WithExt(providerName, ".json")>>
    IN IF file \notin DOMAIN dir.files
       THEN st
       ELSE LET content == dir.files[file]
                metadata == ProviderMetadata(providerName, analyzeComponentFile(content))
                t1 == writeFileSync(st.tree, targetPath, TextFile(ProviderTemplateContent(content)))
                t2 == writeFileSync(t1, jsonPath, JsonFile(metadata))
            IN [ tree |-> t2,
                 list |-> Append(st.list, metadata),
                 written |-> st.written \cup {targetPath, jsonPath},
                 log |-> Append(st.log, Entry("ok", "provider", providerName)) ]

RECURSIVE ProviderLoop(_, _, _)
ProviderLoop(st, dir, files) ==
    IF files = <<>> THEN st
    ELSE ProviderLoop(ProviderStep(st, dir, Head(files)), dir, Tail(files))

\* the files a sub-build takes from an input directory, extension kept
SourceFiles(dir, ext) ==
    SelectSeq(readdirSync(dir.files), LAMBDA f : endsWith(f, ext) /\ ~includesIndex(f))

KindApi(kind, recs, stamp) ==
    IF kind = "providers"
    THEN [ version |-> Version, lastUpdated |-> stamp, baseUrl |-> BaseUrl,
           providers |-> recs, stats |-> [totalProviders |-> Len(recs)] ]
    ELSE [ version |-> Version, lastUpdated |-> stamp, baseUrl |-> BaseUrl,
           tokens |-> recs, stats |-> [totalTokens |-> Len(recs)] ]

buildProviderRegistry(t, dir, wr, stamp) ==
    LET t0 == ensureDir(t, ProvidersDir)
    IN IF ~dir.exists
       THEN [threw |-> TRUE, tree |-> t0, list |-> <<>>, written |-> wr,
             log |-> <<Entry("error", "ENOENT", N("providers"))>>]
       ELSE LET st == ProviderLoop([tree |-> t0, list |-> <<>>, written |-> wr, log |-> <<>>],
                                   dir, SourceFiles(dir, ".tsx"))
            IN [ threw |-> FALSE,
                 tree |-> writeFileSync(st.tree, ApiFile("providers"),
                                        JsonFile(KindApi("providers", st.list, stamp))),
                 list |-> st.list,
                 written |-> st.written \cup {ApiFile("providers")},
                 log |-> st.log ]

TokenMetadata(tokenName, content) ==
    [ name |-> tokenName,
      description |-> tokenName,
      version |-> Version,
      checksum |-> md5(content),
      downloadUrl |-> <<BaseUrl, N("tokens"), WithExt(WithExt(tokenName, ".ts"), ".template")>> ]

\* one iteration of tokenFiles.forEach
TokenStep(st, dir, file) ==
    LET tokenName == replaceExt(file, ".ts")
        targetPath == TokensDir \o <<WithExt(WithExt(tokenName, ".ts"), ".template")>>
    IN IF file \notin DOMAIN dir.files
       THEN st
       ELSE LET content == dir.files[file]
            IN [ tree |-> writeFileSync(st.tree, targetPath, TextFile(content)),
                 list |-> Append(st.list, TokenMetadata(tokenName, content)),
                 written |-> st.written \cup {targetPath},
                 log |-> Append(st.log, Entry("ok", "token", tokenName)) ]

RECURSIVE TokenLoop(_, _, _)
TokenLoop(st, dir, files) ==
    IF files = <<>> THEN st
    ELSE TokenLoop(TokenStep(st, dir, Head(files)), dir, Tail(files))

buildTokenRegistry(t, dir, wr, stamp) ==
    LET t0 == ensureDir(t, TokensDir)
    IN IF ~dir.exists
       THEN [threw |-> TRUE, tree |-> t0, list |-> <<>>, written |-> wr,
             log |-> <<Entry("error", "ENOENT", N("constants/ui"))>>]
       ELSE LET st == TokenLoop([tree |-> t0, list |-> <<>>, written |-> wr, log |-> <<>>],
                                dir, SourceFiles(dir, ".ts"))
            IN [ threw |-> FALSE,
                 tree |-> writeFileSync(st.tree, ApiFile("tokens"),
                                        JsonFile(KindApi("tokens", st.list, stamp))),
                 list |-> st.list,
                 written |-> st.written \cup {ApiFile("tokens")},
                 log |-> st.log ]

\* [...new Set(...)].sort(): the default sort of the module paths
PathRank(path) ==
    CASE path = <<"expo-haptics">> -> 1
      [] path = <<"lucide-react-native">> -> 2
      [] OTHER -> 3

RECURSIVE SortPaths(_)
SortPaths(S) ==
    IF S = {} THEN <<>>
    ELSE LET m == CHOOSE x \in S : \A y \in S \ {x} : PathRank(x) <= PathRank(y)
         IN <<m>> \o SortPaths(S \ {m})

AllDependencies(recs) == Dedup(Flatten([i \in DOMAIN recs |-> recs[i].dependencies]))

RegistryIndex(cs, ts, ps, ks, stamp) ==
    [ version |-> Version,
      lastUpdated |-> stamp,
      baseUrl |-> BaseUrl,
      stats |-> [ components |-> Len(cs), templates |-> Len(ts), providers |-> Len(ps),
                  tokens |-> Len(ks), totalDependencies |-> Len(AllDependencies(cs)) ],
      endpoints |-> [ components |-> <<BaseUrl>> \o ApiFile("components"),
                      templates |-> <<BaseUrl>> \o ApiFile("templates"),
                      providers |-> <<BaseUrl>> \o ApiFile("providers"),
                      tokens |-> <<BaseUrl>> \o ApiFile("tokens") ],
      categories |-> Dedup([i \in DOMAIN cs |-> cs[i].category]),
      dependencies |-> SortPaths(Range(AllDependencies(cs))) ]

buildRegistryIndex(t, cs, ts, ps, ks, stamp) ==
    writeFileSync(t, ApiFile("index"), JsonFile(RegistryIndex(cs, ts, ps, ks, stamp)))

-----------------------------------------------------------------------------
(* validate-registry.js                                                    *)

RequiredDirs == <<N("api"), N("components"), N("templates"), N("providers"), N("tokens")>>
RequiredFiles == <<"index", "components", "templates", "providers", "tokens">>

\* JSON.parse(fs.readFileSync(p)) succeeds
Parses(t, p) == t[p].fmt = "json"

validateRegistryStructure(t) ==
    LET dirLog == [i \in DOMAIN RequiredDirs |->
                     IF existsSync(t, <<RequiredDirs[i]>>)
                     THEN Entry("ok", "directory", RequiredDirs[i])
                     ELSE Entry("error", "missing-directory", RequiredDirs[i])]
        fileLog == [i \in DOMAIN RequiredFiles |->
                     IF ~existsSync(t, ApiFile(RequiredFiles[i]))
                     THEN Entry("error", "missing-file", N(RequiredFiles[i]))
                     ELSE IF Parses(t, ApiFile(RequiredFiles[i]))
                     THEN Entry("ok", "json", N(RequiredFiles[i]))
                     ELSE Entry("error", "invalid-json", N(RequiredFiles[i]))]
        out == dirLog \o fileLog
    IN [ ret |-> \A i \in DOMAIN out : out[i].lvl = "ok", log |-> out ]

\* component.name || 'unknown'
NameOr(rec) == IF "name" \in DOMAIN rec THEN rec.name ELSE N("unknown")

RECURSIVE FieldErrors(_, _)
\* requiredFields.forEach: one error per field the record does not own
FieldErrors(rec, fields) ==
    IF fields = <<>> THEN <<>>
    ELSE (IF Head(fields) \in DOMAIN rec THEN <<>>
          ELSE <<Entry("error", "missing field: " \o Head(fields), NameOr(rec))>>)
         \o FieldErrors(rec, Tail(fields))

ComponentFields == <<"name", "displayName", "description", "category", "dependencies", "exports", "version">>
TemplateFields == <<"name", "displayName", "description", "version">>

\* the body of components.forEach for one record, from the state st of the loop:
\* path.join(..., component.name) throws a TypeError when name is undefined
ComponentCheck(st, t, component) ==
    LET fieldLog == FieldErrors(component, ComponentFields)
    IN IF "name" \notin DOMAIN component
       THEN [st EXCEPT !.threw = TRUE, !.isValid = FALSE, !.examined = @ + 1,
                       !.log = @ \o fieldLog]
       ELSE LET componentDir == ComponentsDir \o <<component.name>>
                fileLog ==
                    IF ~existsSync(t, componentDir)
                    THEN <<Entry("error", "Component directory missing", component.name)>>
                    ELSE (IF existsSync(t, componentDir \o <<ComponentTemplateFile>>) THEN <<>>
                          ELSE <<Entry("error", "Component template missing", component.name)>>)
                         \o (IF existsSync(t, componentDir \o <<ComponentJsonFile>>) THEN <<>>
                             ELSE <<Entry("error", "Component metadata missing", component.name)>>)
                ok == st.isValid /\ fieldLog = <<>> /\ fileLog = <<>>
            IN [st EXCEPT !.isValid = ok, !.examined = @ + 1,
                          !.log = @ \o fieldLog \o fileLog
                                    \o (IF ok THEN <<Entry("ok", "Component valid", component.name)>> ELSE <<>>)]

RECURSIVE ComponentChecks(_, _, _)
ComponentChecks(st, t, recs) ==
    IF recs = <<>> \/ st.threw THEN st
    ELSE ComponentChecks(ComponentCheck(st, t, Head(recs)), t, Tail(recs))

LoopStart == [isValid |-> TRUE, threw |-> FALSE, examined |-> 0, log |-> <<>>]

validateComponents(t) ==
    IF ~existsSync(t, ApiFile("components"))
    THEN [ret |-> FALSE, examined |-> 0, log |-> <<Entry("error", "api-missing", N("components"))>>]
    ELSE IF ~Parses(t, ApiFile("components"))
    THEN [ret |-> FALSE, examined |-> 0, log |-> <<Entry("error", "exception", N("components"))>>]
    ELSE LET st == ComponentChecks(LoopStart, t, t[ApiFile("components")].data.components)
         IN [ ret |-> st.isValid /\ ~st.threw,
              examined |-> st.examined,
              log |-> IF st.threw
                      THEN Append(st.log, Entry("error", "exception", N("components")))
                      ELSE st.log ]

ColorsJson == File("colors", ".json")

\* the body of templates.forEach for one record
TemplateCheck(st, t, template) ==
    LET fieldLog == FieldErrors(template, TemplateFields)
    IN IF "name" \notin DOMAIN template
       THEN [st EXCEPT !.threw = TRUE, !.isValid = FALSE, !.examined = @ + 1,
                       !.log = @ \o fieldLog]
       ELSE LET templateDir == TemplatesDir \o <<template.name>>
                fileLog ==
                    IF ~existsSync(t, templateDir)
                    THEN <<Entry("error", "Template directory missing", template.name)>>
                    ELSE (IF ~existsSync(t, templateDir \o <<ColorsJson>>)
                          THEN <<Entry("error", "Template colors missing", template.name)>>
                          ELSE IF ~Parses(t, templateDir \o <<ColorsJson>>)
                          THEN <<Entry("error", "Invalid colors JSON", template.name)>>
                          ELSE <<>>)
                         \o (IF existsSync(t, templateDir \o <<MetadataJson>>) THEN <<>>
                             ELSE <<Entry("error", "Template metadata missing", template.name)>>)
                ok == st.isValid /\ fieldLog = <<>> /\ fileLog = <<>>
            IN [st EXCEPT !.isValid = ok, !.examined = @ + 1,
                          !.log = @ \o fieldLog \o fileLog
                                    \o (IF ok THEN <<Entry("ok", "Template valid", template.name)>> ELSE <<>>)]

RECURSIVE TemplateChecks(_, _, _)
TemplateChecks(st, t, recs) ==
    IF recs = <<>> \/ st.threw THEN st
    ELSE TemplateChecks(TemplateCheck(st, t, Head(recs)), t, Tail(recs))

validateTemplates(t) ==
    IF ~existsSync(t, ApiFile("templates"))
    THEN [ret |-> FALSE, examined |-> 0, log |-> <<Entry("error", "api-missing", N("templates"))>>]
    ELSE IF ~Parses(t, ApiFile("templates"))
    THEN [ret |-> FALSE, examined |-> 0, log |-> <<Entry("error", "exception", N("templates"))>>]
    ELSE LET st == TemplateChecks(LoopStart, t, t[ApiFile("templates")].data.templates)
         IN [ ret |-> st.isValid /\ ~st.threw,
              examined |-> st.examined,
              log |-> IF st.threw
                      THEN Append(st.log, Entry("error", "exception", N("templates")))
                      ELSE st.log ]

validateDependencies(t) ==
    IF ~existsSync(t, ApiFile("components"))
    THEN [ret |-> FALSE, log |-> <<>>]
    ELSE IF ~Parses(t, ApiFile("components"))
    THEN [ret |-> FALSE, log |-> <<Entry("error", "exception", N("dependencies"))>>]
    ELSE LET recs == t[ApiFile("components")].data.components
         IN IF \E i \in DOMAIN recs : "dependencies" \notin DOMAIN recs[i]
            THEN [ret |-> FALSE, log |-> <<Entry("error", "exception", N("dependencies"))>>]
            ELSE [ret |-> TRUE, log |-> <<Entry("ok", "dependencies", N("dependencies"))>>]

\* the report is printed, or null is returned after the error is logged
generateRegistryReport(t) ==
    IF existsSync(t, ApiFile("index")) /\ Parses(t, ApiFile("index"))
    THEN <<Entry("ok", "report", N("index"))>>
    ELSE <<Entry("error", "exception", N("report"))>>

KeepLeft(a, b) == a

\* isValid &= value, on the numbers 0 and 1
BitAnd(a, b) == IF a = 1 /\ b THEN 1 ELSE 0

-----------------------------------------------------------------------------
(* The inputs the model draws from.                                        *)

Tsx(n) == WithExt(n, ".tsx")

IndexTsx == Tsx(N("index"))
UiFiles == {Tsx(Cap("card")), Tsx(N("card")), Tsx(N("tab"))}
ProviderFiles == {Tsx(Cap("theme"))}
ConstantFiles == {WithExt(N("colors"), ".ts")}
TemplateNames == {N("dusk"), N("slate")}

\* the text of each input file
SourceText(f) ==
    CASE f = Tsx(Cap("card")) ->
            <<Import(<<"react">>), Import(<<"lucide-react-native">>), Use("useTheme"), Export("Card")>>
      [] f = Tsx(N("card")) ->
            <<Import(<<"..", "..", "constants", "ui">>), Use("triggerHaptic"),
              TypeAlias("ButtonVariant", <<"solid", "outline">>, TRUE)>>
      [] f = Tsx(N("tab")) ->
            <<Import(<<"expo-haptics">>), Import(<<"lucide-react-native">>), Use("useHaptics"),
              Token("colors", "primary")>>
      [] f = Tsx(Cap("theme")) ->
            <<Import(<<"react">>), Import(<<"..", "constants", "ui">>), Export("ThemeProvider")>>
      [] f = IndexTsx -> <<Export("index")>>
      [] OTHER -> <<Token("colors", "primary")>>

InputDir(names) == [exists |-> TRUE, files |-> [f \in names |-> SourceText(f)]]
NoInputDir == [exists |-> FALSE, files |-> [f \in {} |-> <<>>]]

ObjectValue == [shape |-> "object", id |-> 1]
ScalarValue == [shape |-> "scalar", id |-> 2]

FullDef(n) ==
    [ name |-> n,
      displayName |-> Capitalize(n),
      description |-> "theme",
      author |-> "rncanopy",
      version |-> "1.0.0",
      personality |-> [mood |-> "calm", spacing |-> "cozy", roundness |-> "soft"],
      preview |-> "preview",
      tokens |-> <<[k |-> "colors", v |-> ObjectValue], [k |-> "spacing", v |-> ScalarValue]>> ]

Without(rec, key) == [k \in DOMAIN rec \ {key} |-> rec[k]]

\* the template.json files a template directory d may hold
TemplateFilesOf(d) ==
    { JsonFile(FullDef(d)),
      JsonFile(FullDef(N("dusk"))),
      JsonFile([FullDef(d) EXCEPT !.tokens = <<[k |-> "colors", v |-> ObjectValue]>>]),
      JsonFile([FullDef(d) EXCEPT !.tokens = <<[k |-> "spacing", v |-> ScalarValue]>>]),
      JsonFile(Without(FullDef(d), "tokens")),
      JsonFile(Without(FullDef(d), "personality")),
      JsonFile(Without(FullDef(d), "name")),
      BadFile }

RemoveUnder(t, p) ==
    [q \in {r \in DOMAIN t : ~(Len(r) >= Len(p) /\ SubSeq(r, 1, Len(p)) = p)} |-> t[q]]

EmptyTree == [q \in {} |-> Dir]

InitialTree ==
    LET t0 == mkdirSync(mkdirSync(EmptyTree, TemplatesDir \o <<N("dusk")>>),
                        TemplatesDir \o <<N("slate")>>)
        t1 == writeFileSync(t0, TemplatesDir \o <<N("dusk"), TemplateJson>>, JsonFile(FullDef(N("dusk"))))
    IN writeFileSync(t1, TemplatesDir \o <<N("slate"), TemplateJson>>, JsonFile(FullDef(N("slate"))))

-----------------------------------------------------------------------------
(* The state machine.                                                      *)

NoRun ==
    /\ components = <<>> /\ templates = <<>> /\ providers = <<>> /\ tokens = <<>>
    /\ written = {} /\ log = <<>> /\ isValid = 1
    /\ examined = [components |-> 0, templates |-> 0]

NoRunNext ==
    /\ components' = <<>> /\ templates' = <<>> /\ providers' = <<>> /\ tokens' = <<>>
    /\ written' = {} /\ log' = <<>> /\ isValid' = 1
    /\ examined' = [components |-> 0, templates |-> 0]

AnalyzeIdle == aText = <<>> /\ aName = N("card") /\ aSheet = <<>> /\ aRecord = <<>> /\ aPc = "off"

Init ==
    /\ expoUi = InputDir({IndexTsx, Tsx(N("card")), Tsx(N("tab"))})
    /\ expoProviders = InputDir(ProviderFiles)
    /\ expoConstants = InputDir(ConstantFiles)
    /\ tree = InitialTree
    /\ pc = "idle"
    /\ outcome = "none"
    /\ builds = 0
    /\ edits = 0
    /\ sinceBuild = [clean |-> FALSE, deleted |-> {}]
    /\ previous = <<>>
    /\ NoRun
    /\ AnalyzeIdle

CanEdit == pc = "idle" /\ edits < MaxEdits

Edited(since) ==
    /\ edits' = edits + 1
    /\ sinceBuild' = since
    /\ previous' = <<>>
    /\ outcome' = "none"
    /\ NoRunNext
    /\ UNCHANGED <<pc, builds>>
    /\ UNCHANGED analyzeVars

ToggleFile(dir, f) ==
    IF f \in DOMAIN dir.files
    THEN [dir EXCEPT !.files = [g \in DOMAIN dir.files \ {f} |-> dir.files[g]]]
    ELSE [dir EXCEPT !.files = [g \in DOMAIN dir.files \cup {f} |-> SourceText(g)]]

\* a source file is added to or removed from an input directory
EnvToggleSource ==
    /\ CanEdit
    /\ \/ \E f \in UiFiles :
            /\ expoUi.exists
            /\ expoUi' = ToggleFile(expoUi, f)
            /\ UNCHANGED <<expoProviders, expoConstants>>
       \/ \E f \in ProviderFiles :
            /\ expoProviders.exists
            /\ expoProviders' = ToggleFile(expoProviders, f)
            /\ UNCHANGED <<expoUi, expoConstants>>
       \/ \E f \in ConstantFiles :
            /\ expoConstants.exists
            /\ expoConstants' = ToggleFile(expoConstants, f)
            /\ UNCHANGED <<expoUi, expoProviders>>
    /\ UNCHANGED tree
    /\ Edited([sinceBuild EXCEPT !.clean = FALSE])

\* an input directory is removed
EnvRemoveInputDir ==
    /\ CanEdit
    /\ \/ expoUi.exists /\ expoUi' = NoInputDir /\ UNCHANGED <<expoProviders, expoConstants>>
       \/ expoProviders.exists /\ expoProviders' = NoInputDir /\ UNCHANGED <<expoUi, expoConstants>>
       \/ expoConstants.exists /\ expoConstants' = NoInputDir /\ UNCHANGED <<expoUi, expoProviders>>
    /\ UNCHANGED tree
    /\ Edited([sinceBuild EXCEPT !.clean = FALSE])

\* a template definition is written into templates/<d>/template.json
EnvPutTemplate ==
    /\ CanEdit
    /\ \E d \in TemplateNames : \E node \in TemplateFilesOf(d) :
          tree' = writeFileSync(mkdirSync(tree, TemplatesDir \o <<d>>),
                                TemplatesDir \o <<d, TemplateJson>>, node)
    /\ tree' # tree
    /\ UNCHANGED <<expoUi, expoProviders, expoConstants>>
    /\ Edited([sinceBuild EXCEPT !.clean = FALSE])

\* a template directory, or the whole templates directory, is removed
EnvRemoveTemplates ==
    /\ CanEdit
    /\ \E p \in {TemplatesDir} \cup {TemplatesDir \o <<d>> : d \in TemplateNames} :
          /\ existsSync(tree, p)
          /\ tree' = RemoveUnder(tree, p)
    /\ UNCHANGED <<expoUi, expoProviders, expoConstants>>
    /\ Edited([sinceBuild EXCEPT !.clean = FALSE])

Generated(p) ==
    /\ tree[p].kind = "file"
    /\ p[1] \in {N("components"), N("providers"), N("tokens"), N("templates")}
    /\ p[Len(p)] # TemplateJson

\* a generated file is deleted from the registry tree
EnvDeleteGenerated ==
    /\ CanEdit
    /\ \E p \in DOMAIN tree :
          /\ Generated(p)
          /\ tree' = [q \in DOMAIN tree \ {p} |-> tree[q]]
          /\ Edited([sinceBuild EXCEPT !.deleted = @ \cup {p}])
    /\ UNCHANGED <<expoUi, expoProviders, expoConstants>>

inputs == <<expoUi, expoProviders, expoConstants>>

\* build-registry.js main, up to the first sub-build
BuildStart ==
    /\ pc = "idle" /\ builds < MaxBuilds
    /\ builds' = builds + 1
    /\ tree' = ensureDir(tree, ApiDir)
    /\ pc' = "b_components"
    /\ outcome' = "running"
    /\ sinceBuild' = [clean |-> FALSE, deleted |-> {}]
    /\ previous' = IF sinceBuild = [clean |-> TRUE, deleted |-> {}] THEN <<tree>> ELSE <<>>
    /\ NoRunNext
    /\ UNCHANGED <<inputs, edits>>
    /\ UNCHANGED analyzeVars

\* a sub-build returned r: main goes on, or its promise is rejected
SubBuild(by, r, next) ==
    /\ tree' = r.tree
    /\ written' = r.written
    /\ log' = log \o Printed(by, r.log)
    /\ pc' = IF r.threw THEN "idle" ELSE next
    /\ outcome' = IF r.threw THEN "threw" ELSE outcome
    /\ UNCHANGED <<inputs, isValid, examined, builds, edits, sinceBuild, previous>>
    /\ UNCHANGED analyzeVars

BuildComponents ==
    /\ pc = "b_components"
    /\ LET r == buildComponentRegistry(tree, expoUi, written, builds)
       IN SubBuild("buildComponentRegistry", r, "b_templates") /\ components' = r.list
    /\ UNCHANGED <<templates, providers, tokens>>

BuildTemplates ==
    /\ pc = "b_templates"
    /\ LET r == buildTemplateRegistry(tree, written, builds)
       IN SubBuild("buildTemplateRegistry", r, "b_providers") /\ templates' = r.list
    /\ UNCHANGED <<components, providers, tokens>>

BuildProviders ==
    /\ pc = "b_providers"
    /\ LET r == buildProviderRegistry(tree, expoProviders, written, builds)
       IN SubBuild("buildProviderRegistry", r, "b_tokens") /\ providers' = r.list
    /\ UNCHANGED <<components, templates, tokens>>

BuildTokens ==
    /\ pc = "b_tokens"
    /\ LET r == buildTokenRegistry(tree, expoConstants, written, builds)
       IN SubBuild("buildTokenRegistry", r, "b_index") /\ tokens' = r.list
    /\ UNCHANGED <<components, templates, providers>>

BuildIndex ==
    /\ pc = "b_index"
    /\ tree' = buildRegistryIndex(tree, components, templates, providers, tokens, builds)
    /\ written' = written \cup {ApiFile("index")}
    /\ log' = log \o Printed("buildRegistryIndex", <<Entry("ok", "created", N("index"))>>)
    /\ pc' = "idle"
    /\ outcome' = "finished"
    /\ sinceBuild' = [clean |-> TRUE, deleted |-> {}]
    /\ UNCHANGED <<inputs, components, templates, providers, tokens, isValid, examined,
                   builds, edits, previous>>
    /\ UNCHANGED analyzeVars

\* validate-registry.js main
ValidateStart ==
    /\ pc = "idle"
    /\ pc' = "v_structure"
    /\ outcome' = "running"
    /\ NoRunNext
    /\ UNCHANGED <<inputs, tree, builds, edits, sinceBuild, previous>>
    /\ UNCHANGED analyzeVars

\* a check that creates the api directory it finds missing
CheckRepairing(by, r, next) ==
    /\ isValid' = BitAnd(isValid, r.ret)
    /\ log' = log \o Printed(by, r.log)
    /\ pc' = next
    /\ tree' = ensureDir(tree, ApiDir)
    /\ UNCHANGED <<inputs, components, templates, providers, tokens, written,
                   outcome, builds, edits, sinceBuild, previous>>
    /\ UNCHANGED analyzeVars

Check(by, r, next) ==
    /\ isValid' = BitAnd(isValid, r.ret)
    /\ log' = log \o Printed(by, r.log)
    /\ pc' = next
    /\ UNCHANGED <<inputs, tree, components, templates, providers, tokens, written,
                   outcome, builds, edits, sinceBuild, previous>>
    /\ UNCHANGED analyzeVars

ValidateStructure ==
    /\ pc = "v_structure"
    /\ Check("validateRegistryStructure", validateRegistryStructure(tree), "v_components")
    /\ UNCHANGED examined

ValidateComponents ==
    /\ pc = "v_components"
    /\ LET r == validateComponents(tree)
       IN Check("validateComponents", r, "v_templates") /\ examined' = [examined EXCEPT !.components = r.examined]

ValidateTemplates ==
    /\ pc = "v_templates"
    /\ LET r == validateTemplates(tree)
       IN Check("validateTemplates", r, "v_dependencies") /\ examined' = [examined EXCEPT !.templates = r.examined]

ValidateDependencies ==
    /\ pc = "v_dependencies"
    /\ Check("validateDependencies", validateDependencies(tree), "v_report")
    /\ UNCHANGED examined

ValidateReport ==
    /\ pc = "v_report"
    /\ log' = log \o Printed("generateRegistryReport", generateRegistryReport(tree))
    /\ pc' = "v_exit"
    /\ UNCHANGED <<inputs, tree, components, templates, providers, tokens, written,
                   outcome, isValid, examined, builds, edits, sinceBuild, previous>>
    /\ UNCHANGED analyzeVars

\* process.exit(0) or process.exit(1)
ValidateExit ==
    /\ pc = "v_exit"
    /\ outcome' = IF isValid = 1 THEN "exit0" ELSE "exit1"
    /\ pc' = "idle"
    /\ UNCHANGED <<inputs, tree, components, templates, providers, tokens, written,
                   log, isValid, examined, builds, edits, sinceBuild, previous>>
    /\ UNCHANGED analyzeVars

Next ==
    \/ EnvToggleSource
    \/ EnvRemoveInputDir
    \/ EnvPutTemplate
    \/ EnvRemoveTemplates
    \/ EnvDeleteGenerated
    \/ BuildStart
    \/ BuildComponents
    \/ BuildTemplates
    \/ BuildProviders
    \/ BuildTokens
    \/ BuildIndex
    \/ ValidateStart
    \/ ValidateStructure
    \/ ValidateComponents
    \/ ValidateTemplates
    \/ ValidateDependencies
    \/ ValidateReport
    \/ ValidateExit

Spec == Init /\ [][Next]_vars

-----------------------------------------------------------------------------
(* analyzeComponentFile and createComponentMetadata on their own: the      *)
(* text and the name are drawn from bounded sets.                          *)

Statements ==
    { Use("useTheme"), Use("useHaptics"), Use("triggerHaptic"),
      Import(<<"react">>), Import(<<"react-native", "Libraries">>), Import(<<".", "utils">>),
      Import(<<"lucide-react-native">>), ImportLines(<<"expo-haptics">>),
      ImportBare(<<"react-native-gesture-handler">>),
      TypeAlias("ButtonVariant", <<"solid", "outline">>, FALSE),
      TypeAlias("ButtonSize", <<"sm">>, TRUE),
      Export("Button"), Token("colors", "primary") }

Texts == UNION {[1..n -> Statements] : n \in 0..MaxStmts}

ComponentNames == {Cap("button"), N("button"), N("tab")}

MainIdle ==
    /\ expoUi = NoInputDir /\ expoProviders = NoInputDir /\ expoConstants = NoInputDir
    /\ tree = EmptyTree
    /\ pc = "off" /\ outcome = "none" /\ builds = 0 /\ edits = 0
    /\ sinceBuild = [clean |-> FALSE, deleted |-> {}]
    /\ previous = <<>>
    /\ NoRun

InitAnalyze ==
    /\ MainIdle
    /\ aText \in Texts
    /\ aName \in ComponentNames
    /\ aSheet = <<>>
    /\ aRecord = <<>>
    /\ aPc = "read"

Analyze ==
    /\ aPc = "read"
    /\ aSheet' = <<analyzeComponentFile(aText)>>
    /\ aPc' = "analyzed"
    /\ UNCHANGED <<aText, aName, aRecord>>
    /\ UNCHANGED mainVars

Synthesize ==
    /\ aPc = "analyzed"
    /\ aRecord' = <<createComponentMetadata(aName, aSheet[1])>>
    /\ aPc' = "done"
    /\ UNCHANGED <<aText, aName, aSheet>>
    /\ UNCHANGED mainVars

NextAnalyze == Analyze \/ Synthesize

SpecAnalyze == InitAnalyze /\ [][NextAnalyze]_vars

-----------------------------------------------------------------------------
(* C1: requiredProviders holds HapticsProvider iff hasHaptics, and         *)
(* ThemeProvider iff hasHaptics or useTheme occurs in the text.            *)

C1_ProvidersFromFlags ==
    aPc = "done" =>
        LET rec == aRecord[1]
            req == Range(rec.requiredProviders)
        IN /\ ("HapticsProvider" \in req) <=> rec.hasHaptics
           /\ ("ThemeProvider" \in req) <=> (rec.hasHaptics \/ includes(aText, "useTheme"))

-----------------------------------------------------------------------------
(* The published documents, as the tree holds them.                        *)

HasDoc(kind) == existsSync(tree, ApiFile(kind)) /\ Parses(tree, ApiFile(kind))
Doc(kind) == tree[ApiFile(kind)].data
Records(kind) ==
    CASE kind = "components" -> Doc(kind).components
      [] kind = "templates" -> Doc(kind).templates
      [] kind = "providers" -> Doc(kind).providers
      [] kind = "tokens" -> Doc(kind).tokens

BuildEnded == pc = "idle" /\ outcome \in {"finished", "threw"}
BuildFinished == pc = "idle" /\ outcome = "finished"
ValidationEnded == pc = "idle" /\ outcome \in {"exit0", "exit1"}

\* the path in the registry tree a URL of a record points to
UrlPath(url) == Tail(url)

-----------------------------------------------------------------------------
(* C2: after a build that finished without a thrown error, validateComponents *)
(* and validateTemplates both find every record's directory and files and     *)
(* return true.                                                               *)

C2_BuildThenValid ==
    BuildFinished => validateComponents(tree).ret /\ validateTemplates(tree).ret

-----------------------------------------------------------------------------
(* C3: validateComponents and validateTemplates examine every record of    *)
(* their document and report the defects of every record, whatever the     *)
(* defects of the records before it.                                       *)

Reported(by, msg, who) ==
    \E i \in DOMAIN log : log[i] = [lvl |-> "error", msg |-> msg, who |-> who, by |-> by]

C3_EveryRecordExamined ==
    ValidationEnded =>
        /\ HasDoc("components") =>
              /\ examined.components = Len(Records("components"))
              /\ \A i \in DOMAIN Records("components") :
                    LET rec == Records("components")[i]
                    IN ("name" \in DOMAIN rec /\ ~existsSync(tree, ComponentsDir \o <<rec.name>>))
                          => Reported("validateComponents", "Component directory missing", rec.name)
        /\ HasDoc("templates") =>
              /\ examined.templates = Len(Records("templates"))
              /\ \A i \in DOMAIN Records("templates") :
                    LET rec == Records("templates")[i]
                    IN ("name" \in DOMAIN rec /\ ~existsSync(tree, TemplatesDir \o <<rec.name>>))
                          => Reported("validateTemplates", "Template directory missing", rec.name)

-----------------------------------------------------------------------------
(* C4: when a file declared by a record of a published document is absent, *)
(* the validation run ends with the verdict failure.                       *)

DeclaredPaths ==
    (IF HasDoc("components")
     THEN UNION {{UrlPath(Records("components")[i].downloadUrl),
                  UrlPath(Records("components")[i].metadataUrl)} : i \in DOMAIN Records("components")}
     ELSE {})
    \cup
    (IF HasDoc("templates")
     THEN UNION {{UrlPath(Records("templates")[i].metadataUrl)}
                 \cup {UrlPath(Records("templates")[i].tokenFiles[j].url) :
                          j \in DOMAIN Records("templates")[i].tokenFiles} :
                 i \in DOMAIN Records("templates")}
     ELSE {})
    \cup
    (IF HasDoc("providers")
     THEN {UrlPath(Records("providers")[i].downloadUrl) : i \in DOMAIN Records("providers")}
     ELSE {})
    \cup
    (IF HasDoc("tokens")
     THEN {UrlPath(Records("tokens")[i].downloadUrl) : i \in DOMAIN Records("tokens")}
     ELSE {})

C4_AbsentFileFails ==
    (ValidationEnded /\ \E p \in DeclaredPaths : ~existsSync(tree, p)) => outcome = "exit1"

-----------------------------------------------------------------------------
(* C5: after a finished build, deleting one component's                    *)
(* component.tsx.template and validating reports exactly one defect among  *)
(* the components, the missing template of that component, and reports     *)
(* every other component as valid.                                         *)

LinesOf(by, lvl) == SelectSeq(log, LAMBDA e : e.by = by /\ e.lvl = lvl)

C5_OneDefectOthersValid ==
    \A c \in {replaceExt(f, ".tsx") : f \in UiFiles} :
        ( /\ ValidationEnded
          /\ sinceBuild = [clean |-> TRUE,
                           deleted |-> {ComponentsDir \o <<c, ComponentTemplateFile>>}] )
        => /\ LinesOf("validateComponents", "error")
                = Printed("validateComponents", <<Entry("error", "Component template missing", c)>>)
           /\ \A i \in DOMAIN Records("components") :
                 Records("components")[i].name # c
                    => \E j \in DOMAIN log :
                          log[j] = [lvl |-> "ok", msg |-> "Component valid",
                                    who |-> Records("components")[i].name, by |-> "validateComponents"]

-----------------------------------------------------------------------------
(* C6: a template definition without tokens or without tokens.colors is    *)
(* skipped with a warning: no record of it is in the list or the document  *)
(* of the run, nothing is written into its directory in the run, and every *)
(* other definition with colors is processed; the document is written      *)
(* with exactly the processed records unless a record lacks personality.   *)

\* the forEach of buildTemplateRegistry has completed in the current or latest build run
TemplatesLoopDone ==
    \/ pc \in {"b_providers", "b_tokens", "b_index"}
    \/ BuildFinished
    \/ /\ pc = "idle" /\ outcome = "threw"
       /\ log[Len(log)].by # "buildComponentRegistry"

DefinitionOf(d) == tree[TemplatesDir \o <<d, TemplateJson>>]
LacksColors(def) ==
    \/ "tokens" \notin DOMAIN def
    \/ "colors" \notin {def.tokens[i].k : i \in DOMAIN def.tokens}
SkippedTemplate(d) == DefinitionOf(d).fmt = "json" /\ LacksColors(DefinitionOf(d).data)
UsableTemplate(d) == DefinitionOf(d).fmt = "json" /\ ~LacksColors(DefinitionOf(d).data)
TemplateUrlOf(d) == <<BaseUrl, N("templates"), d, TemplateJson>>
Under(p, dir) == Len(p) > Len(dir) /\ SubSeq(p, 1, Len(dir)) = dir

-----------------------------------------------------------------------------
(* C7: a template definition that cannot be read, or that lacks            *)
(* personality, is only omitted: the build finishes, the other templates   *)
(* are published and the provider, token and index documents are written.  *)

FailingTemplate(d) ==
    \/ DefinitionOf(d).fmt # "json"
    \/ UsableTemplate(d) /\ "personality" \notin DOMAIN DefinitionOf(d).data

C7_TemplateFailureLocal ==
    ( /\ BuildEnded /\ TemplatesLoopDone
      /\ expoProviders.exists /\ expoConstants.exists
      /\ \E d \in Range(TemplateDirs(tree)) : FailingTemplate(d) )
    => /\ outcome = "finished"
       /\ {ApiFile("templates"), ApiFile("providers"), ApiFile("tokens"), ApiFile("index")} \subseteq written
       /\ \A d \in Range(TemplateDirs(tree)) :
             (\E i \in DOMAIN Records("templates") : Records("templates")[i].templateUrl = TemplateUrlOf(d))
                <=> (UsableTemplate(d) /\ ~FailingTemplate(d))

-----------------------------------------------------------------------------
(* C8: a build run that finishes without a thrown error has written the    *)
(* four kind-level documents and the index in that run.                    *)

C8_AllDocumentsWritten ==
    BuildFinished =>
        {ApiFile("components"), ApiFile("templates"), ApiFile("providers"), ApiFile("tokens"),
         ApiFile("index")} \subseteq written

-----------------------------------------------------------------------------
(* C9: after a build run has ended, the index on disk agrees with the      *)
(* component document on disk: its dependencies are the sorted             *)
(* duplicate-free union, its categories the set of categories, and         *)
(* stats.components the number of records.                                 *)

IndexAgrees ==
    LET recs == Records("components")
        idx == Doc("index")
    IN /\ Range(idx.dependencies) = UNION {Range(recs[i].dependencies) : i \in DOMAIN recs}
       /\ \A i, j \in DOMAIN idx.dependencies :
             i < j => PathRank(idx.dependencies[i]) < PathRank(idx.dependencies[j])
       /\ Range(idx.categories) = {recs[i].category : i \in DOMAIN recs}
       /\ idx.stats.components = Len(recs)

C9_IndexIsUnion ==
    (BuildEnded /\ HasDoc("components") /\ HasDoc("index")) => IndexAgrees

-----------------------------------------------------------------------------
(* C10: within a published document, two records with the same name carry  *)
(* the same URLs.                                                          *)

Urls(kind, rec) ==
    CASE kind = "components" -> <<rec.downloadUrl, rec.metadataUrl>>
      [] kind = "templates" ->
            <<rec.templateUrl, rec.metadataUrl>> \o [j \in DOMAIN rec.tokenFiles |-> rec.tokenFiles[j].url]
      [] OTHER -> <<rec.downloadUrl>>

C10_UrlsFromName ==
    \A kind \in {"components", "templates", "providers", "tokens"} :
        HasDoc(kind) =>
            \A i, j \in DOMAIN Records(kind) :
                LET a == Records(kind)[i]
                    b == Records(kind)[j]
                IN ("name" \in DOMAIN a /\ "name" \in DOMAIN b /\ a.name = b.name)
                      => Urls(kind, a) = Urls(kind, b)

-----------------------------------------------------------------------------
(* C11: in every document written by a build run, no two records of the    *)
(* same kind carry the same name.                                          *)

Kinds == {"components", "templates", "providers", "tokens"}

C11_NamesUnique ==
    \A kind \in Kinds :
        (ApiFile(kind) \in written /\ HasDoc(kind)) =>
            \A i, j \in DOMAIN Records(kind) :
                LET a == Records(kind)[i]
                    b == Records(kind)[j]
                IN (i # j /\ "name" \in DOMAIN a /\ "name" \in DOMAIN b) => a.name # b.name

-----------------------------------------------------------------------------
(* C12: a build run that starts on the tree a finished build left, with    *)
(* the inputs and the template definitions unchanged, leaves the same      *)
(* files with the same contents, checksums included, except for the        *)
(* lastUpdated values.                                                     *)

\* the data of a generated JSON file without its lastUpdated values
WithoutStamps(data) ==
    LET top == Without(data, "lastUpdated")
    IN IF "templates" \in DOMAIN top
       THEN [top EXCEPT !.templates = [i \in DOMAIN @ |-> Without(@[i], "lastUpdated")]]
       ELSE top

Unstamped(node) ==
    IF node.kind = "file" /\ node.fmt = "json"
    THEN [node EXCEPT !.data = WithoutStamps(@)]
    ELSE node

SameButStamps(t1, t2) ==
    /\ DOMAIN t1 = DOMAIN t2
    /\ \A p \in DOMAIN t1 : Unstamped(t1[p]) = Unstamped(t2[p])

C12_RebuildSame ==
    (BuildFinished /\ previous # <<>>) => SameButStamps(previous[1], tree)

\* the same, for a first run that wrote its template document
C12_RebuildSameWithTemplates ==
    (BuildFinished /\ previous # <<>> /\ existsSync(previous[1], ApiFile("templates")))
        => SameButStamps(previous[1], tree)

-----------------------------------------------------------------------------
(* C13: when the input directory of components, providers or tokens is     *)
(* missing, the build run that ended has logged an error for that kind and *)
(* has not written that kind's document, and it has written the documents  *)
(* of the kinds whose input directory exists and the index.                *)

InputOf(kind) ==
    CASE kind = "components" -> expoUi
      [] kind = "providers" -> expoProviders
      [] kind = "tokens" -> expoConstants

SubBuildOf(kind) ==
    CASE kind = "components" -> "buildComponentRegistry"
      [] kind = "providers" -> "buildProviderRegistry"
      [] kind = "tokens" -> "buildTokenRegistry"

\* a definition that the template sub-build publishes and that has no personality
LacksPersonality(d) == UsableTemplate(d) /\ "personality" \notin DOMAIN DefinitionOf(d).data

C13_MissingInputLocal ==
    ( /\ BuildEnded
      /\ \E kind \in Kinds \ {"templates"} : ~InputOf(kind).exists
      /\ \A d \in Range(TemplateDirs(tree)) : ~LacksPersonality(d) )
    => /\ ApiFile("index") \in written
       /\ \A kind \in Kinds \ {"templates"} :
             IF InputOf(kind).exists
             THEN ApiFile(kind) \in written
             ELSE /\ ApiFile(kind) \notin written
                  /\ \E i \in DOMAIN log : log[i].lvl = "error" /\ log[i].by = SubBuildOf(kind)

-----------------------------------------------------------------------------
(* C14: a validation run goes through validateRegistryStructure,           *)
(* validateComponents, validateTemplates and validateDependencies in this  *)
(* order whatever the earlier ones returned, then through                  *)
(* generateRegistryReport, and exits with 0 iff each of the four checks    *)
(* returned true, with 1 otherwise, whatever the report did.               *)

AllChecksPass(t) ==
    /\ validateRegistryStructure(t).ret
    /\ validateComponents(t).ret
    /\ validateTemplates(t).ret
    /\ validateDependencies(t).ret

C14_Step ==
    /\ pc = "v_structure" => pc' = "v_components"
    /\ pc = "v_components" => pc' = "v_templates"
    /\ pc = "v_templates" => pc' = "v_dependencies"
    /\ pc = "v_dependencies" => pc' = "v_report"
    /\ pc = "v_report" => pc' = "v_exit" /\ isValid' = isValid
    /\ pc = "v_exit" =>
          /\ pc' = "idle"
          /\ outcome' = IF AllChecksPass(tree) THEN "exit0" ELSE "exit1"

C14_AllChecksThenVerdict == [][C14_Step]_vars

\* a run that ended in which the first check failed and the last one passed
C14_Witness ==
    /\ ValidationEnded
    /\ outcome = "exit1"
    /\ ~validateRegistryStructure(tree).ret
    /\ validateDependencies(tree).ret
    /\ \E i \in DOMAIN log : log[i].by = "validateDependencies"

-----------------------------------------------------------------------------
(* C15: the dependencies analyzeComponentFile returns are, without         *)
(* duplicates, exactly the module paths of the import statements of the    *)
(* text that are neither relative nor react, react-native or               *)
(* react-native/...; importing only lucide-react-native and declaring      *)
(* ButtonVariant = 'solid' | 'outline' gives [lucide-react-native] and     *)
(* [solid, outline]; no import gives the empty list.                       *)

ImportedPaths(content) == {content[i].path : i \in {j \in DOMAIN content : content[j].k \in ImportKinds}}

Relative(path) == path # <<>> /\ Head(path) \in {".", ".."}
HostFramework(path) == path = <<"react">> \/ (path # <<>> /\ Head(path) = "react-native")

NoDuplicates(seq) == \A i, j \in DOMAIN seq : i # j => seq[i] # seq[j]

C15_DependenciesExact ==
    aPc \in {"analyzed", "done"} =>
        LET deps == aSheet[1].dependencies
        IN /\ NoDuplicates(deps)
           /\ Range(deps) = {p \in ImportedPaths(aText) : ~Relative(p) /\ ~HostFramework(p)}

\* the scenario of the claim and the text without imports
C15_Scenario ==
    aPc \in {"analyzed", "done"} =>
        /\ ( /\ ImportedPaths(aText) = {<<"lucide-react-native">>}
             /\ \E i \in DOMAIN aText : aText[i] = TypeAlias("ButtonVariant", <<"solid", "outline">>, FALSE)
             /\ \A i \in DOMAIN aText : aText[i].k \in {"import", "type"} )
           => /\ aSheet[1].dependencies = << <<"lucide-react-native">> >>
              /\ aSheet[1].variants = <<"solid", "outline">>
        /\ ImportedPaths(aText) = {} => aSheet[1].dependencies = <<>>

-----------------------------------------------------------------------------
(* C16: no step of a validation run creates, changes or deletes a file or  *)
(* a directory: the registry tree and the input trees are the same before  *)
(* and after every step of validate-registry.js, whatever it finds.        *)

ValidatorPositions ==
    {"v_structure", "v_components", "v_templates", "v_dependencies", "v_report", "v_exit"}

C16_Step ==
    (pc \in ValidatorPositions \/ pc' \in ValidatorPositions)
        => /\ tree' = tree
           /\ expoUi' = expoUi /\ expoProviders' = expoProviders /\ expoConstants' = expoConstants

C16_ValidatorReadsOnly == [][C16_Step]_vars

\* a run that ended with failure after reporting a defect of a component
C16_Witness ==
    /\ ValidationEnded
    /\ outcome = "exit1"
    /\ \E i \in DOMAIN log : log[i].lvl = "error" /\ log[i].by = "validateComponents"
    /\ sinceBuild.clean /\ sinceBuild.deleted # {}

-----------------------------------------------------------------------------
(* C17: after a finished build the generated files are those of the        *)
(* inputs of that build: a <group>.json in a template's directory only for *)
(* a key of the definition's tokens map, a metadata.json only for a        *)
(* template with a record in api/templates.json, and a directory under     *)
(* components/ only for a record of api/components.json.                   *)

TokenGroups == {"colors", "spacing"}

\* the keys of the tokens map of the definition in templates/<d>/template.json
CurrentGroups(d) ==
    IF /\ existsSync(tree, TemplatesDir \o <<d, TemplateJson>>)
       /\ DefinitionOf(d).fmt = "json"
       /\ "tokens" \in DOMAIN DefinitionOf(d).data
    THEN {DefinitionOf(d).data.tokens[i].k : i \in DOMAIN DefinitionOf(d).data.tokens}
    ELSE {}

PublishedUnder(kind, dir) ==
    /\ HasDoc(kind)
    /\ \E i \in DOMAIN Records(kind) :
          LET p == UrlPath(Records(kind)[i].metadataUrl)
          IN [j \in DOMAIN p |-> toLowerCase(p[j])] = [j \in DOMAIN dir |-> toLowerCase(dir[j])] \o <<p[Len(p)]>>

C17_NothingStale ==
    BuildFinished =>
        /\ \A d \in Entries(tree, TemplatesDir) : \A g \in TokenGroups :
              existsSync(tree, TemplatesDir \o <<d, File(g, ".json")>>) => g \in CurrentGroups(d)
        /\ \A d \in Entries(tree, TemplatesDir) :
              existsSync(tree, TemplatesDir \o <<d, MetadataJson>>)
                 => PublishedUnder("templates", TemplatesDir \o <<d>>)
        /\ \A c \in Entries(tree, ComponentsDir) :
              PublishedUnder("components", ComponentsDir \o <<c>>)

-----------------------------------------------------------------------------
(* C18: after a finished build, the checksum of every published component, *)
(* provider and token-set record is the digest of the *.template file its  *)
(* downloadUrl points to, and the checksum of every tokenFiles entry is    *)
(* the digest of the <group>.json file its url points to.                  *)

\* the text a reader downloads: what writeFileSync was given
FileText(node) ==
    IF node.fmt = "text" THEN node.data.text
    ELSE [indent |-> node.indent, data |-> node.data]

ChecksumMatches(checksum, url) ==
    existsSync(tree, UrlPath(url)) => checksum = md5(FileText(tree[UrlPath(url)]))

C18_ChecksumOfGeneratedFile ==
    BuildFinished =>
        /\ \A kind \in Kinds \ {"templates"} :
              (ApiFile(kind) \in written /\ HasDoc(kind)) =>
                  \A i \in DOMAIN Records(kind) :
                      ChecksumMatches(Records(kind)[i].checksum, Records(kind)[i].downloadUrl)
        /\ (ApiFile("templates") \in written /\ HasDoc("templates")) =>
              \A i \in DOMAIN Records("templates") :
                  \A j \in DOMAIN Records("templates")[i].tokenFiles :
                      ChecksumMatches(Records("templates")[i].tokenFiles[j].checksum,
                                      Records("templates")[i].tokenFiles[j].url)

\* the same for the token sets alone, whose files are copied as they are
C18_TokenSetsOnly ==
    (BuildFinished /\ ApiFile("tokens") \in written /\ HasDoc("tokens")) =>
        \A i \in DOMAIN Records("tokens") :
            ChecksumMatches(Records("tokens")[i].checksum, Records("tokens")[i].downloadUrl)

====
